---- MODULE Spec2Model ----
(***************************************************************************)
(* Alarm scheduler skill (alarm_scheduler_skill.py): one asyncio event     *)
(* loop runs the request handlers, the tasks they spawn and the alarm      *)
(* timer task.  Tasks interleave only at their awaits, so every action     *)
(* below is the code between two awaits of one task.                       *)
(*                                                                         *)
(* Time is counted in hours since Monday 00:00.  The clock is sampled at   *)
(* the hours of ClockHours of every day (before, at and after the cron     *)
(* hour); any number of steps may happen at one sampled instant.           *)
(***************************************************************************)
EXTENDS Integers, Sequences, FiniteSets, TLC

VARIABLES
    now,                \* datetime.now(), in hours
    store,              \* committed rows of table ASSActiveAlarm
    tasks,              \* the asyncio tasks that have not ended, by task id
    active_alarm_task,  \* self._active_alarm_task: a task id, or NoTask
    restarts,           \* process restarts so far
    requests,           \* requests received so far
    notifier_calls,     \* history: scheduled instant -> webhook POSTs sent for it
    break_done,         \* history: a Break completed and no Set/Skip/Continue
                        \* request was received since
    last_event,         \* history: the last thing a handler or operation let
                        \* out (a response sent, an error raised, a drop logged)
    text,               \* client_request.text given to find_matching_action
    matched             \* what find_matching_action returned for text

vars == <<now, store, tasks, active_alarm_task, restarts, requests,
          notifier_calls, break_done, last_event, text, matched>>

----------------------------------------------------------------------------
\* Bounds of the model.
MaxDays == 1
MaxRequests == 2
MaxRestarts == 1
MaxWords == 2

\* Program constants.
HoursPerDay == 24
CronHour == 6
DefaultSetHour == 6
NoTask == 0
NoTime == -1

ClockHours == {5, 6, 7}
NumberTokens == {NoTime, 7}
MaxTime == MaxDays * HoursPerDay - 1
Instants == {t \in 0..MaxTime : (t % HoursPerDay) \in ClockHours}
FirstInstant == CHOOSE t \in Instants : \A u \in Instants : t <= u

UserAlarmName == "User Alarm"
DefaultAlarmName == "Default Cron Alarm"

\* pc values at which a task is suspended in an await.
Suspended == {"calc", "sleep", "post", "read", "commit", "arm", "cancel", "query"}
\* pc values of a task that is inside register_alarm / break_execution.
InOperation == {"read", "commit", "arm", "cancel"}

----------------------------------------------------------------------------
\* Pure helpers.

StartOfDay(t) == t - (t % HoursPerDay)

\* croniter(cron_expression, start).get_next(): the first occurrence of the
\* daily rule "0 CronHour * * *" strictly after start.
CronGetNext(start) ==
    IF (start % HoursPerDay) < CronHour
    THEN StartOfDay(start) + CronHour
    ELSE StartOfDay(start) + HoursPerDay + CronHour

\* A plausible slip: the skip flag is ignored.
calculate_next_cron_execution_noskip(t, skip_next) == CronGetNext(t)

calculate_next_cron_execution(t, skip_next) ==
    IF skip_next THEN CronGetNext(CronGetNext(t)) ELSE CronGetNext(t)

\* A slip: a default time that has passed is not rolled to the next day.
find_parameters_set_noroll(t, token) ==
    [alarm_name |-> UserAlarmName,
     alarm_time |-> StartOfDay(t) + (IF token = NoTime THEN DefaultSetHour ELSE token)]

\* find_parameters, Action.SET branch: today at DefaultSetHour, the hour
\* replaced by an "o'clock"/"hours" number token, rolled to tomorrow when
\* already past.
find_parameters_set(t, token) ==
    LET base == StartOfDay(t) + (IF token = NoTime THEN DefaultSetHour ELSE token)
    IN  [alarm_name |-> UserAlarmName,
         alarm_time |-> IF base < t THEN base + HoursPerDay ELSE base]

----------------------------------------------------------------------------
\* Action.find_matching_action.  A text is a sequence of characters.

\* Some of string.punctuation.
Punctuation == {"!", ".", ",", "?", "-", "'"}

\* str.lower() on the letters used here.
UpperToLower ==
    ("B" :> "b") @@ ("R" :> "r") @@ ("E" :> "e") @@ ("A" :> "a") @@
    ("K" :> "k") @@ ("S" :> "s") @@ ("H" :> "h")

\* class Action: the members in definition order, each with its value, the
\* list of its keywords.
ActionOrder == <<"help", "set", "skip", "break", "continue", "get_active">>

ActionValue ==
    [help       |-> <<<<"h", "e", "l", "p">>>>,
     set        |-> <<<<"s", "e", "t">>>>,
     skip       |-> <<<<"s", "k", "i", "p">>>>,
     break      |-> <<<<"b", "r", "e", "a", "k">>>>,
     continue   |-> <<<<"c", "o", "n", "t", "i", "n", "u", "e">>>>,
     get_active |-> <<<<"c", "u", "r", "r", "e", "n", "t">>>>]

\* text.translate(str.maketrans("", "", string.punctuation))
translate(t) == SelectSeq(t, LAMBDA c : c \notin Punctuation)

\* text.lower()
lower(t) ==
    [i \in 1..Len(t) |-> IF t[i] \in DOMAIN UpperToLower THEN UpperToLower[t[i]] ELSE t[i]]

\* set(text.split()): the maximal runs of characters without a blank.
split(t) ==
    {SubSeq(t, a, b) : <<a, b>> \in
        {<<a, b>> \in (1..Len(t)) \X (1..Len(t)) :
            /\ a <= b
            /\ \A i \in a..b : t[i] # " "
            /\ (a = 1 \/ t[a - 1] = " ")
            /\ (b = Len(t) \/ t[b + 1] = " ")}}

text_words(t) == split(lower(translate(t)))

\* all(word in text_words for word in action.value)
AllIn(value, words) == \A k \in 1..Len(value) : value[k] \in words

\* A slip: the last matching member is returned instead of the first.
find_matching_action_last(t) ==
    LET words == text_words(t)
        hits == {i \in 1..Len(ActionOrder) : AllIn(ActionValue[ActionOrder[i]], words)}
    IN  IF hits = {} THEN "none"
        ELSE ActionOrder[CHOOSE i \in hits : \A j \in hits : j <= i]

\* The loop "for action in cls" from member i on.
RECURSIVE ScanActions(_, _)
ScanActions(i, words) ==
    IF i > Len(ActionOrder) THEN "none"
    ELSE IF AllIn(ActionValue[ActionOrder[i]], words) THEN ActionOrder[i]
    ELSE ScanActions(i + 1, words)

find_matching_action(t) == ScanActions(1, text_words(t))

\* The words requests are written with, and the texts of up to MaxWords of
\* them separated by one blank.
RawWords ==
    {<<"h", "e", "l", "p">>,
     <<"S", "e", "t">>,
     <<"s", "k", "i", "p", "!">>,
     <<"B", "R", "E", "A", "K">>,
     <<"c", "o", "n", "t", "i", "n", "u", "e", ",">>,
     <<"c", "u", "r", "r", "e", "n", "t", "?">>,
     <<"a", "l", "a", "r", "m">>,
     <<"h", "e", "l", "p", "e", "r">>,
     <<"s", "e", "t", "-", "u", "p">>,
     <<".", ".">>}

RECURSIVE Join(_)
Join(ws) ==
    IF Len(ws) = 0 THEN <<>>
    ELSE IF Len(ws) = 1 THEN ws[1]
    ELSE ws[1] \o <<" ">> \o Join(Tail(ws))

Texts == {Join(ws) : ws \in UNION {[1..n -> RawWords] : n \in 0..MaxWords}}

----------------------------------------------------------------------------
\* Task records.

NewTask(kind, pc, time, name) ==
    [kind |-> kind, pc |-> pc,
     target |-> NoTime,          \* timer: scheduled_time it sleeps for
     alarm_time |-> time,        \* Parameters.alarm_time given to register_alarm
     alarm_name |-> name,
     existing |-> {},            \* ids of the rows its session read
     calls |-> 0,                \* notifier calls made by this task
     outcome |-> "none",         \* notifier outcome seen by this task
     logged |-> "none",          \* level of the log line of trigger_alarm
     resched |-> 0,              \* calls of set_next_alarm_from_cron by trigger_alarm
     calc_now |-> NoTime,        \* now read by calculate_next_cron_execution /
                                 \* find_parameters
     number_token |-> NoTime,    \* Set: the hour given with "o'clock"/"hours", if any
     posted |-> NoTime,          \* timer: alarm_time of the JSON body it posted
     armed_by |-> "none",        \* history, timer: kind of the task that armed it
     over_waiting |-> FALSE,     \* history, timer: armed over a timer still asleep
     armed_alone |-> FALSE,      \* history, timer: the operation that armed it was solo
     break_requested |-> FALSE,  \* history: a Break request came while it slept
     solo |-> TRUE,              \* history: no other task stepped during its operation
     must_cancel |-> FALSE,      \* asyncio.Task: cancel() came while it was running
     announced |-> NoTime]       \* Skip/Continue: alarm_time given in the answer

NewTimer(scheduled_time) ==
    [NewTask("timer", "sleep", NoTime, DefaultAlarmName) EXCEPT !.target = scheduled_time]

TaskIds == DOMAIN tasks

\* Ids are opaque: a new task or row takes the least id not in use.
LeastFree(used) ==
    CHOOSE i \in 1..(Cardinality(used) + 1) :
        i \notin used /\ \A j \in 1..(i - 1) : j \in used

FreshTaskId(ts) == LeastFree(DOMAIN ts)

FreshRowId(st, ts) ==
    LeastFree({r.id : r \in st} \cup UNION {ts[i].existing : i \in DOMAIN ts})

AddTask(ts, t) ==
    LET id == FreshTaskId(ts)
    IN  [i \in DOMAIN ts \cup {id} |-> IF i = id THEN t ELSE ts[i]]

\* History bookkeeping: a step of task self interleaves with every other
\* request operation that is inside register_alarm / break_execution.
Touch(ts, self) ==
    [i \in DOMAIN ts |->
        IF i # self /\ ts[i].pc \in InOperation /\ ts[i].kind # "timer"
        THEN [ts[i] EXCEPT !.solo = FALSE] ELSE ts[i]]

\* A task spawned with add_task runs its first step on the next turn of the
\* event loop, before any other task gets through another await.
CalcPending == \E i \in TaskIds : tasks[i].pc = "calc"

\* An ended task is dropped, unless _active_alarm_task still refers to it.
Reap(ts, active) ==
    [i \in {k \in DOMAIN ts : ts[k].pc \in Suspended \/ k = active} |-> ts[i]]

\* A slip: the old task is left running.
CancelTask_noop(t) == t

\* asyncio.Task.cancel(): a task suspended in an await gets CancelledError
\* there and ends; a task that is running is only marked, and gets the error
\* at its next await; a finished task is not affected.
CancelTask(t) ==
    IF t.pc \in Suspended THEN [t EXCEPT !.pc = "cancelled"]
    ELSE IF t.pc = "running" THEN [t EXCEPT !.must_cancel = TRUE]
    ELSE t

\* A running task reaches its end without another await: a cancellation that
\* was only marked never raised in its code.
Finish(t) ==
    IF t.pc = "running"
    THEN [t EXCEPT !.pc = IF t.must_cancel THEN "cancelled" ELSE "done"]
    ELSE t

\* A slip: cancelling the running task aborts it at once, before the new
\* timer is installed.
set_next_alarm_self_abort(ts, active, scheduled_time) ==
    IF active # NoTask /\ ts[active].pc = "running"
    THEN [tasks |-> [ts EXCEPT ![active].pc = "cancelled"], active |-> active]
    ELSE [tasks |-> AddTask(IF active # NoTask
                            THEN [ts EXCEPT ![active] = CancelTask(@)]
                            ELSE ts,
                            NewTimer(scheduled_time)),
          active |-> FreshTaskId(ts)]

\* A slip: the new timer is installed without cancelling the old one.
set_next_alarm_no_cancel(ts, active, scheduled_time) ==
    [tasks |-> AddTask(ts, NewTimer(scheduled_time)),
     active |-> FreshTaskId(ts)]

\* set_next_alarm: cancel the task in _active_alarm_task, if any, and install
\* a new timer task sleeping until scheduled_time (delay = scheduled_time - now;
\* asyncio.sleep returns at once for a delay <= 0).
set_next_alarm(ts, active, scheduled_time) ==
    LET cancelled == IF active # NoTask
                     THEN [ts EXCEPT ![active] = CancelTask(@)]
                     ELSE ts
    IN  [tasks |-> AddTask(cancelled, NewTimer(scheduled_time)),
         active |-> FreshTaskId(ts)]

\* History bookkeeping: the timer that set_next_alarm installed (if it did)
\* remembers who armed it and whether it replaced a timer still asleep.
Armed(old, r, by) ==
    IF r.active \in DOMAIN r.tasks /\ r.active \notin DOMAIN old
    THEN [r.tasks EXCEPT ![r.active].armed_by = by]
    ELSE r.tasks

ArmedOver(old, active, r, by) ==
    LET ts == Armed(old, r, by)
    IN  IF /\ r.active \in DOMAIN r.tasks /\ r.active \notin DOMAIN old
           /\ active # NoTask /\ old[active].pc = "sleep"
        THEN [ts EXCEPT ![r.active].over_waiting = TRUE]
        ELSE ts

\* A slip: a transport error escapes trigger_alarm.
trigger_alarm_outcome_propagate(t, outcome) ==
    IF outcome = "ok"
    THEN [t EXCEPT !.outcome = outcome, !.logged = "info", !.pc = "resched"]
    ELSE IF outcome = "status"
    THEN [t EXCEPT !.outcome = outcome, !.logged = "error", !.pc = "resched"]
    ELSE [t EXCEPT !.outcome = outcome, !.pc = "failed"]

\* A slip: a failed delivery is swallowed without a log line.
trigger_alarm_outcome_silent(t, outcome) ==
    IF outcome = "ok"
    THEN [t EXCEPT !.outcome = outcome, !.logged = "info", !.pc = "resched"]
    ELSE [t EXCEPT !.outcome = outcome, !.pc = "resched"]

\* trigger_alarm, the try/except around the POST: every outcome is logged and
\* control falls through to the rescheduling.
trigger_alarm_outcome(t, outcome) ==
    IF outcome = "ok"
    THEN [t EXCEPT !.outcome = outcome, !.logged = "info", !.pc = "resched"]
    ELSE [t EXCEPT !.outcome = outcome, !.logged = "error", !.pc = "resched"]

\* set_next_alarm_from_cron up to the first await of register_alarm.
set_next_alarm_from_cron(t, clock) ==
    [t EXCEPT !.alarm_time = calculate_next_cron_execution(clock, FALSE),
              !.alarm_name = DefaultAlarmName,
              !.calc_now = clock,
              !.pc = "read"]

\* skip_alarm up to the first await of register_alarm.
skip_alarm(t, clock) ==
    [t EXCEPT !.alarm_time = calculate_next_cron_execution(clock, TRUE),
              !.alarm_name = DefaultAlarmName,
              !.calc_now = clock,
              !.pc = "read"]

\* The rows a session reads: register_alarm takes .first() of an unordered
\* select (any one row), break_execution takes .all().
ReadChoices(kind) ==
    IF kind = "break" THEN {{r.id : r \in store}}
    ELSE IF store = {} THEN {{}}
    ELSE {{r.id} : r \in store}

\* What commit leaves in the table: the rows read are deleted (a row already
\* gone deletes nothing), register_alarm inserts its new row.
CommitStore(st, ts, t) ==
    LET kept == {r \in st : r.id \notin t.existing}
    IN  IF t.kind = "break" THEN kept
        ELSE kept \cup {[id |-> FreshRowId(st, ts),
                         name |-> t.alarm_name, time |-> t.alarm_time]}

\* The webhook POST for scheduled instant t is sent.
NotifierCalled(calls, t) ==
    [u \in DOMAIN calls \cup {t} |->
        IF u \in DOMAIN calls
        THEN (IF u = t THEN calls[u] + 1 ELSE calls[u])
        ELSE 1]

\* A slip: recovery also arms for a stored alarm that is not in the future.
skill_preparations_any_row(st, clock) ==
    IF st = {}
    THEN {[tasks |-> <<>>, active |-> NoTask]}
    ELSE {LET a == set_next_alarm(<<>>, NoTask, r.time)
          IN  [tasks |-> Armed(<<>>, a, "recovery"), active |-> a.active] : r \in st}

\* skill_preparations on a fresh process: .first() of the rows with
\* scheduled_time > now is armed with set_next_alarm; with no such row nothing
\* is armed.  The store is only read.
skill_preparations(st, clock) ==
    LET future == {r \in st : r.time > clock}
    IN  IF future = {}
        THEN {[tasks |-> <<>>, active |-> NoTask]}
        ELSE {LET a == set_next_alarm(<<>>, NoTask, r.time)
              IN  [tasks |-> Armed(<<>>, a, "recovery"), active |-> a.active] : r \in future}

\* What leaves a handler or an operation: the answer given to send_response,
\* an exception that escapes, or the error line of an unrecognized text.
NoEvent == [event |-> "none", action |-> "none", alarm_time |-> NoTime]
Response(action, time) == [event |-> "response", action |-> action, alarm_time |-> time]
Raised(action) == [event |-> "raised", action |-> action, alarm_time |-> NoTime]
Dropped == [event |-> "unrecognized", action |-> "none", alarm_time |-> NoTime]

----------------------------------------------------------------------------
Init ==
    /\ now = FirstInstant
    /\ store = {}
    /\ tasks = <<>>
    /\ active_alarm_task = NoTask
    /\ restarts = 0
    /\ requests = 0
    /\ notifier_calls = <<>>
    /\ break_done = FALSE
    /\ last_event = NoEvent
    /\ text = <<>>
    /\ matched = "unset"

\* Time passes to the next sampled instant.
Tick ==
    /\ \E t \in Instants :
          /\ t > now
          /\ \A u \in Instants : u > now => t <= u
          /\ now' = t
    /\ UNCHANGED <<store, tasks, active_alarm_task, restarts, requests,
                   notifier_calls, break_done>>
    /\ UNCHANGED <<last_event, text, matched>>

\* process_request, Action.SET: find_parameters, then register_alarm is awaited
\* in the handler itself and is suspended in its select; the answer is sent
\* when register_alarm has returned (Arm).
RequestSet ==
    /\ requests < MaxRequests
    /\ requests' = requests + 1
    /\ \E token \in NumberTokens :
          LET p == find_parameters_set(now, token)
          IN  tasks' = AddTask(tasks,
                  [NewTask("set", "read", p.alarm_time, p.alarm_name)
                      EXCEPT !.calc_now = now, !.number_token = token])
    /\ break_done' = FALSE
    /\ UNCHANGED <<now, store, active_alarm_task, restarts, notifier_calls>>
    /\ UNCHANGED <<last_event, text, matched>>

\* process_request, Action.SKIP / Action.CONTINUE: find_parameters computes
\* the time of the answer, the operation is spawned with add_task and has not
\* run yet when the handler sends the answer and returns.
RequestSpawn ==
    /\ requests < MaxRequests
    /\ requests' = requests + 1
    /\ \E kind \in {"skip", "continue"} :
          /\ tasks' = AddTask(tasks,
                [NewTask(kind, "calc", NoTime, DefaultAlarmName)
                    EXCEPT !.announced =
                        calculate_next_cron_execution(now, kind = "skip")])
          /\ last_event' = Response(kind,
                  calculate_next_cron_execution(now, kind = "skip"))
    /\ break_done' = FALSE
    /\ UNCHANGED <<now, store, active_alarm_task, restarts, notifier_calls>>
    /\ UNCHANGED <<text, matched>>

\* process_request, Action.BREAK: break_execution is spawned with add_task.
RequestBreak ==
    /\ requests < MaxRequests
    /\ requests' = requests + 1
    /\ LET marked ==
              IF active_alarm_task # NoTask /\ tasks[active_alarm_task].pc = "sleep"
              THEN [tasks EXCEPT ![active_alarm_task].break_requested = TRUE]
              ELSE tasks
       IN  tasks' = AddTask(marked, NewTask("break", "read", NoTime, DefaultAlarmName))
    /\ last_event' = Response("break", NoTime)
    /\ UNCHANGED <<now, store, active_alarm_task, restarts, notifier_calls, break_done>>
    /\ UNCHANGED <<text, matched>>

\* A slip: a Skip counts from the alarm that is armed instead of from now.
Calc_accumulating(self) ==
    /\ tasks[self].pc = "calc"
    /\ tasks' = [Touch(tasks, self) EXCEPT ![self] =
                    IF @.kind = "skip"
                    THEN IF active_alarm_task \in TaskIds
                         THEN [skip_alarm(@, now) EXCEPT !.alarm_time =
                                  CronGetNext(tasks[active_alarm_task].target)]
                         ELSE skip_alarm(@, now)
                    ELSE set_next_alarm_from_cron(@, now)]
    /\ UNCHANGED <<now, store, active_alarm_task, restarts, requests,
                   notifier_calls, break_done>>
    /\ UNCHANGED <<last_event, text, matched>>

\* The spawned skip_alarm / set_next_alarm_from_cron starts: it computes its
\* time from the clock and enters register_alarm.
Calc(self) ==
    /\ tasks[self].pc = "calc"
    /\ tasks' = [Touch(tasks, self) EXCEPT ![self] =
                    IF @.kind = "skip" THEN skip_alarm(@, now)
                    ELSE set_next_alarm_from_cron(@, now)]
    /\ UNCHANGED <<now, store, active_alarm_task, restarts, requests,
                   notifier_calls, break_done>>
    /\ UNCHANGED <<last_event, text, matched>>

\* The select of register_alarm / break_execution returns.
Read(self) ==
    /\ tasks[self].pc = "read"
    /\ ~CalcPending
    /\ \E rows \in ReadChoices(tasks[self].kind) :
          tasks' = [Touch(tasks, self) EXCEPT ![self].existing = rows,
                                              ![self].pc = "commit"]
    /\ UNCHANGED <<now, store, active_alarm_task, restarts, requests,
                   notifier_calls, break_done>>
    /\ UNCHANGED <<last_event, text, matched>>

\* session.commit() succeeds.
Commit(self) ==
    /\ tasks[self].pc = "commit"
    /\ ~CalcPending
    /\ store' = CommitStore(store, tasks, tasks[self])
    /\ tasks' = [Touch(tasks, self) EXCEPT
                    ![self].pc = IF tasks[self].kind = "break" THEN "cancel" ELSE "arm",
                    ![self].existing = {}]
    /\ UNCHANGED <<now, active_alarm_task, restarts, requests,
                   notifier_calls, break_done>>
    /\ UNCHANGED <<last_event, text, matched>>

\* A slip: a failing commit has already applied its deletes.
StoreFail_partial(self) ==
    /\ tasks[self].pc \in {"read", "commit"}
    /\ ~CalcPending
    /\ tasks' = Reap([Touch(tasks, self) EXCEPT ![self].pc = "failed"],
                     active_alarm_task)
    /\ store' = {r \in store : r.id \notin tasks[self].existing}
    /\ last_event' = Raised(tasks[self].kind)
    /\ UNCHANGED <<now, active_alarm_task, restarts, requests,
                   notifier_calls, break_done, text, matched>>

\* The select or session.commit() raises: the transaction is rolled back and
\* the error leaves the task.
StoreFail(self) ==
    /\ tasks[self].pc \in {"read", "commit"}
    /\ ~CalcPending
    /\ tasks' = Reap([Touch(tasks, self) EXCEPT ![self].pc = "failed"],
                     active_alarm_task)
    /\ last_event' = Raised(tasks[self].kind)
    /\ UNCHANGED <<now, store, active_alarm_task, restarts, requests,
                   notifier_calls, break_done>>
    /\ UNCHANGED <<text, matched>>

\* register_alarm after its session closed: set_next_alarm, and the task runs
\* to its end without another await.
Arm(self) ==
    /\ tasks[self].pc = "arm"
    /\ ~CalcPending
    /\ LET r == set_next_alarm([Touch(tasks, self) EXCEPT ![self].pc = "running"],
                               active_alarm_task, tasks[self].alarm_time)
           armed == [ArmedOver(tasks, active_alarm_task, r, tasks[self].kind)
                        EXCEPT ![r.active].armed_alone = tasks[self].solo]
       IN  /\ tasks' = Reap([armed EXCEPT ![self] = Finish(@)], r.active)
           /\ active_alarm_task' = r.active
    /\ last_event' = IF tasks[self].kind = "set"
                      THEN Response("set", tasks[self].alarm_time)
                      ELSE last_event
    /\ UNCHANGED <<now, store, restarts, requests, notifier_calls, break_done>>
    /\ UNCHANGED <<text, matched>>

\* A slip: cancelling with no timer task referenced is an error.
BreakCancel_strict(self) ==
    /\ tasks[self].pc = "cancel"
    /\ ~CalcPending
    /\ LET done == [Touch(tasks, self) EXCEPT ![self].pc = "done"]
       IN  IF active_alarm_task # NoTask
           THEN /\ tasks' = Reap([done EXCEPT ![active_alarm_task] = CancelTask(@)],
                                 NoTask)
                /\ active_alarm_task' = NoTask
                /\ UNCHANGED last_event
           ELSE /\ tasks' = Reap(done, NoTask)
                /\ last_event' = Raised("break")
                /\ UNCHANGED active_alarm_task
    /\ break_done' = TRUE
    /\ UNCHANGED <<now, store, restarts, requests, notifier_calls, text, matched>>

\* break_execution after its session closed: cancel and forget the timer task.
BreakCancel(self) ==
    /\ tasks[self].pc = "cancel"
    /\ ~CalcPending
    /\ LET done == [Touch(tasks, self) EXCEPT ![self].pc = "done"]
       IN  IF active_alarm_task # NoTask
           THEN /\ tasks' = Reap([done EXCEPT ![active_alarm_task] = CancelTask(@)],
                                 NoTask)
                /\ active_alarm_task' = NoTask
           ELSE /\ tasks' = Reap(done, NoTask)
                /\ UNCHANGED active_alarm_task
    /\ break_done' = TRUE
    /\ UNCHANGED <<now, store, restarts, requests, notifier_calls>>
    /\ UNCHANGED <<last_event, text, matched>>

\* trigger_alarm_after_delay: the sleep is over and trigger_alarm sends the POST.
Wake(self) ==
    /\ tasks[self].kind = "timer"
    /\ tasks[self].pc = "sleep"
    /\ ~CalcPending
    /\ now >= tasks[self].target
    /\ tasks' = [Touch(tasks, self) EXCEPT ![self].calls = @ + 1,
                                           ![self].posted = now,
                                           ![self].pc = "post"]
    /\ notifier_calls' = NotifierCalled(notifier_calls, tasks[self].target)
    /\ UNCHANGED <<now, store, active_alarm_task, restarts, requests, break_done>>
    /\ UNCHANGED <<last_event, text, matched>>

\* trigger_alarm: the POST ends (2xx, non-2xx or transport error), then
\* set_next_alarm_from_cron runs up to the select of register_alarm.
Post(self) ==
    /\ tasks[self].pc = "post"
    /\ ~CalcPending
    /\ \E outcome \in {"ok", "status", "error"} :
          LET t == trigger_alarm_outcome(tasks[self], outcome)
          IN  tasks' = Reap([Touch(tasks, self) EXCEPT ![self] =
                               IF t.pc = "resched"
                               THEN set_next_alarm_from_cron(
                                        [t EXCEPT !.resched = @ + 1], now)
                               ELSE t],
                            active_alarm_task)
    /\ UNCHANGED <<now, store, active_alarm_task, restarts, requests,
                   notifier_calls, break_done>>
    /\ UNCHANGED <<last_event, text, matched>>

\* process_request, Action.GET_ACTIVE: find_parameters builds the select with
\* datetime.now() and is suspended in it.
RequestGetActive ==
    /\ requests < MaxRequests
    /\ requests' = requests + 1
    /\ tasks' = AddTask(tasks, [NewTask("get_active", "query", NoTime, DefaultAlarmName)
                                   EXCEPT !.calc_now = now])
    /\ UNCHANGED <<now, store, active_alarm_task, restarts, notifier_calls,
                   break_done, last_event, text, matched>>

\* find_parameters, Action.GET_ACTIVE: .first() of the rows with
\* scheduled_time > now (any one of them), or no alarm_time.
get_active(st, clock) ==
    LET rows == {r \in st : r.time > clock}
    IN  IF rows = {} THEN {NoTime} ELSE {r.time : r \in rows}

\* A slip: GET_ACTIVE also deletes the rows it filtered out as past.
GetActiveQuery_purging(self) ==
    /\ tasks[self].pc = "query"
    /\ ~CalcPending
    /\ tasks' = Reap([tasks EXCEPT ![self].pc = "done"], active_alarm_task)
    /\ store' = {r \in store : r.time > tasks[self].calc_now}
    /\ \E t \in get_active(store, tasks[self].calc_now) :
          last_event' = Response("get_active", t)
    /\ UNCHANGED <<now, active_alarm_task, restarts, requests,
                   notifier_calls, break_done, text, matched>>

\* The select of GET_ACTIVE returns and the answer is sent, or it raises and
\* the error leaves process_request.
GetActiveQuery(self) ==
    /\ tasks[self].pc = "query"
    /\ ~CalcPending
    /\ tasks' = Reap([tasks EXCEPT ![self].pc = "done"], active_alarm_task)
    /\ \/ \E t \in get_active(store, tasks[self].calc_now) :
             last_event' = Response("get_active", t)
       \/ last_event' = Raised("get_active")
    /\ UNCHANGED <<now, store, active_alarm_task, restarts, requests,
                   notifier_calls, break_done, text, matched>>

\* process_request, Action.HELP: nothing is done and the answer is sent.
RequestHelp ==
    /\ requests < MaxRequests
    /\ requests' = requests + 1
    /\ last_event' = Response("help", NoTime)
    /\ UNCHANGED <<now, store, tasks, active_alarm_task, restarts,
                   notifier_calls, break_done, text, matched>>

\* A slip: an unmatched text is answered with the fallback of get_answer.
Unrecognized_sorry ==
    /\ requests < MaxRequests
    /\ requests' = requests + 1
    /\ last_event' = Response("none", NoTime)
    /\ UNCHANGED <<now, store, tasks, active_alarm_task, restarts,
                   notifier_calls, break_done, text, matched>>

\* process_request with a text that find_matching_action does not match: the
\* error line is logged and the handler returns.
Unrecognized ==
    /\ requests < MaxRequests
    /\ requests' = requests + 1
    /\ last_event' = Dropped
    /\ UNCHANGED <<now, store, tasks, active_alarm_task, restarts,
                   notifier_calls, break_done, text, matched>>

\* The process dies and starts again: every task is gone, and
\* skill_preparations re-arms from a stored alarm that is still in the future.
Restart ==
    /\ restarts < MaxRestarts
    /\ restarts' = restarts + 1
    /\ \E p \in skill_preparations(store, now) :
          /\ tasks' = p.tasks
          /\ active_alarm_task' = p.active
    /\ UNCHANGED <<now, store, requests, notifier_calls, break_done>>
    /\ UNCHANGED <<last_event, text, matched>>

\* The event loop runs the handler of a request, or one step of one task.
Next ==
    \/ Tick
    \/ RequestSet
    \/ RequestSpawn
    \/ RequestBreak
    \/ RequestGetActive
    \/ RequestHelp
    \/ Unrecognized
    \/ Restart
    \/ \E self \in TaskIds : Calc(self)
    \/ \E self \in TaskIds : Read(self)
    \/ \E self \in TaskIds : Commit(self)
    \/ \E self \in TaskIds : StoreFail(self)
    \/ \E self \in TaskIds : Arm(self)
    \/ \E self \in TaskIds : BreakCancel(self)
    \/ \E self \in TaskIds : Wake(self)
    \/ \E self \in TaskIds : Post(self)
    \/ \E self \in TaskIds : GetActiveQuery(self)

Spec == Init /\ [][Next]_vars

\* find_matching_action on its own: a text arrives and is matched.
InitMatch ==
    /\ now = FirstInstant
    /\ store = {}
    /\ tasks = <<>>
    /\ active_alarm_task = NoTask
    /\ restarts = 0
    /\ requests = 0
    /\ notifier_calls = <<>>
    /\ break_done = FALSE
    /\ last_event = NoEvent
    /\ text \in Texts
    /\ matched = "pending"

Match ==
    /\ matched = "pending"
    /\ matched' = find_matching_action(text)
    /\ UNCHANGED <<now, store, tasks, active_alarm_task, restarts, requests,
                   notifier_calls, break_done, last_event, text>>

NextMatch == Match

SpecMatch == InitMatch /\ [][NextMatch]_vars

\* The table outlives the process.  A process may start over what an earlier
\* run left there: no row, one row, or the two rows that two overlapping
\* register_alarm calls leave.
PriorRows == {[id |-> 1, name |-> UserAlarmName, time |-> 7],
              [id |-> 2, name |-> DefaultAlarmName, time |-> HoursPerDay + CronHour]}

InitRecovered ==
    /\ now = FirstInstant
    /\ store \in SUBSET PriorRows
    /\ \E p \in skill_preparations(store, now) :
          /\ tasks = p.tasks
          /\ active_alarm_task = p.active
    /\ restarts = 0
    /\ requests = 0
    /\ notifier_calls = <<>>
    /\ break_done = FALSE
    /\ last_event = NoEvent
    /\ text = <<>>
    /\ matched = "unset"

\* One run of the process started over such a table, up to its end.
NextRecovered ==
    \/ Tick
    \/ RequestSet
    \/ RequestSpawn
    \/ RequestBreak
    \/ RequestGetActive
    \/ RequestHelp
    \/ Unrecognized
    \/ \E self \in TaskIds : Calc(self)
    \/ \E self \in TaskIds : Read(self)
    \/ \E self \in TaskIds : Commit(self)
    \/ \E self \in TaskIds : StoreFail(self)
    \/ \E self \in TaskIds : Arm(self)
    \/ \E self \in TaskIds : BreakCancel(self)
    \/ \E self \in TaskIds : Wake(self)
    \/ \E self \in TaskIds : Post(self)
    \/ \E self \in TaskIds : GetActiveQuery(self)

SpecRecovered == InitRecovered /\ [][NextRecovered]_vars

----------------------------------------------------------------------------
\* Properties.

\* The timer tasks that are waiting for their delay or firing.
LiveTimers == {i \in TaskIds : tasks[i].kind = "timer" /\ tasks[i].pc \in Suspended}

\* No request operation or Fire is between two of its steps: every task is a
\* timer waiting for its delay.
Quiescent == \A i \in TaskIds : tasks[i].pc \in Suspended => tasks[i].pc = "sleep"

IsOccurrence(t) == (t % HoursPerDay) = CronHour
OccurrencesBetween(a, b) == {t \in (a + 1)..(b - 1) : IsOccurrence(t)}

\* C1: the committed store never holds more than one alarm row, under any
\* interleaving of the operations.
C1_AtMostOneRow == Cardinality(store) <= 1

\* C2: at most one timer task is live, and it is the one that
\* _active_alarm_task refers to.
C2_OneLiveTimer ==
    /\ LiveTimers \subseteq {active_alarm_task}
    /\ Cardinality(LiveTimers) <= 1

\* C2 witness: after a restart recovery and an earlier Fire, a timer installed
\* over a waiting one is the only live one.
C2_Witness ==
    /\ restarts > 0
    /\ DOMAIN notifier_calls # {}
    /\ \E i \in LiveTimers : tasks[i].over_waiting /\ active_alarm_task = i

\* C3: the notifier is called at most once for any one scheduled instant.
C3_OneCallPerTime == \A t \in DOMAIN notifier_calls : notifier_calls[t] <= 1

\* C4: when no operation is in progress and the store is not empty, the
\* pending trigger's target is the stored alarm's scheduled_time.
C4_TargetMatchesStore ==
    (Quiescent /\ store # {} /\ LiveTimers # {}) =>
        \A i \in LiveTimers : \A r \in store : tasks[i].target = r.time

\* C5: from the completion of a Break until the next Set, Skip or Continue
\* request, the store is empty and no trigger is pending.
C5_BreakLeavesIdle == break_done => (store = {} /\ LiveTimers = {})

\* C6: a trigger that was waiting when a Break request was processed makes no
\* notifier call.
C6_NoCallAfterBreak ==
    \A i \in TaskIds : tasks[i].break_requested => tasks[i].calls = 0

\* C7: arming leaves exactly one live trigger, and a trigger that makes a
\* notifier call is the one installed last: one that was replaced while it
\* waited never calls.
C7_ReplacedNeverFires ==
    [][/\ \A i \in TaskIds : Wake(i) => i = active_alarm_task
       /\ \A i \in TaskIds : Arm(i) => Cardinality(LiveTimers') = 1]_vars

\* C7 witness: a trigger was armed over a waiting one, and the only notifier
\* call ever made is the one of the second.
C7_Witness ==
    \E i \in LiveTimers :
        /\ tasks[i].over_waiting
        /\ tasks[i].calls = 1
        /\ DOMAIN notifier_calls = {tasks[i].target}
        /\ notifier_calls[tasks[i].target] = 1

\* A Fire (a timer that has called the notifier) ends in this step, the
\* process staying up.
FireEnds(i) ==
    /\ tasks[i].kind = "timer"
    /\ tasks[i].calls > 0
    /\ tasks[i].pc \in Suspended
    /\ restarts' = restarts
    /\ (i \notin DOMAIN tasks' \/ tasks'[i].pc \notin Suspended)

ByBreak == \E b \in TaskIds : BreakCancel(b)

C9_DeliveryErrorAbsorbed ==
    \A i \in TaskIds :
        tasks[i].kind = "timer" =>
            /\ tasks[i].pc \in {"read", "commit", "arm"} =>
                  /\ tasks[i].calls = 1
                  /\ tasks[i].resched = 1
                  /\ tasks[i].outcome \in {"ok", "status", "error"}
                  /\ tasks[i].logged = (IF tasks[i].outcome = "ok" THEN "info" ELSE "error")
            /\ tasks[i].pc \in {"sleep", "post"} => tasks[i].resched = 0
            /\ tasks[i].pc = "failed" => tasks[i].resched = 1

\* C9 witness: a Fire whose POST met a transport error is about to re-arm.
C9_Witness ==
    \E i \in TaskIds :
        /\ tasks[i].kind = "timer"
        /\ tasks[i].pc = "arm"
        /\ tasks[i].outcome = "error"
        /\ tasks[i].logged = "error"

\* C10: a Continue (Skip) that ran with no other task stepping in between
\* leaves, as it ends, a stored alarm and a trigger for the first (second)
\* occurrence of the rule strictly after the now it read; at Monday 07:00
\* that is Tuesday 06:00 (Wednesday 06:00).
C10_ContinueSkipTimes ==
    [][\A i \in TaskIds :
          (tasks[i].kind \in {"skip", "continue"} /\ tasks[i].solo /\ Arm(i)) =>
              LET t0 == tasks[i].calc_now
                  at == tasks[i].alarm_time
                  skipped == IF tasks[i].kind = "skip" THEN 1 ELSE 0
              IN  /\ at > t0
                  /\ IsOccurrence(at)
                  /\ Cardinality(OccurrencesBetween(t0, at)) = skipped
                  /\ \E r \in store' : r.time = at
                  /\ tasks'[active_alarm_task'].target = at
                  /\ tasks'[active_alarm_task'].pc = "sleep"
                  /\ t0 = 7 => at = (IF skipped = 1 THEN 54 ELSE 30)]_vars

\* C10 witness: the only request was a Skip, it has ended, and at Monday
\* 07:00 the alarm stored and armed is Wednesday 06:00.
C10_Witness ==
    /\ requests = 1
    /\ now = 7
    /\ \E i \in LiveTimers :
          /\ tasks[i].armed_by = "skip"
          /\ tasks[i].target = 54
          /\ store = {[id |-> 1, name |-> DefaultAlarmName, time |-> 54]}

\* What C11 asks of a Set without explicit time asked at instant t.
DefaultSetOk(t, time, name) ==
    LET today6 == StartOfDay(t) + 6
    IN  /\ time = IF today6 < t THEN today6 + HoursPerDay ELSE today6
        /\ time >= t
        /\ time < t + HoursPerDay
        /\ name = UserAlarmName

\* C11: a Set without explicit time schedules 06:00 of the current day, or of
\* the next day when that is already before now (tomorrow 06:00 when asked at
\* 07:00); the time is never before now and less than a day after it, and the
\* row is stored under the user-facing name.
C11_SetDefaultTime ==
    /\ [](/\ \A t \in 0..(2 * HoursPerDay - 1) :
               LET p == find_parameters_set(t, NoTime)
               IN  DefaultSetOk(t, p.alarm_time, p.alarm_name)
          /\ find_parameters_set(7, NoTime).alarm_time = HoursPerDay + 6
          /\ \A i \in TaskIds :
               (tasks[i].kind = "set" /\ tasks[i].number_token = NoTime)
               => DefaultSetOk(tasks[i].calc_now, tasks[i].alarm_time,
                               tasks[i].alarm_name))
    /\ [][\A i \in TaskIds :
            (tasks[i].kind = "set" /\ tasks[i].number_token = NoTime /\ Commit(i))
            => \E r \in store' \ store :
                  DefaultSetOk(tasks[i].calc_now, r.time, r.name)]_vars

\* C11 witness: a Set without explicit time asked at 07:00 has stored and
\* armed tomorrow 06:00 under the user-facing name.
C11_Witness ==
    /\ now = 7
    /\ \E r \in store : r.name = UserAlarmName /\ r.time = HoursPerDay + 6
    /\ \E i \in LiveTimers : tasks[i].target = HoursPerDay + 6 /\ tasks[i].armed_by = "set"

\* A Set for time T has returned, it ran alone, and nothing but the timer it
\* armed (still asleep) and GetActive requests is left in the event loop.
SetCompletedAlone(T) ==
    /\ last_event = Response("set", T)
    /\ active_alarm_task \in TaskIds
    /\ LET a == tasks[active_alarm_task]
       IN  /\ a.kind = "timer" /\ a.pc = "sleep" /\ a.target = T
           /\ a.armed_by = "set" /\ a.armed_alone
    /\ \A i \in TaskIds : i # active_alarm_task => tasks[i].kind = "get_active"

\* C12: after a Set for T completed with no other scheduling operation in
\* between, a GetActive asked at a now before T answers exactly T, and one
\* asked at or after T answers no alarm.
C12_RoundTrip ==
    [][\A g \in TaskIds : \A T \in 0..(3 * HoursPerDay) :
          (SetCompletedAlone(T) /\ GetActiveQuery(g)
              /\ last_event'.event = "response")
          => last_event'.alarm_time =
                IF tasks[g].calc_now < T THEN T ELSE NoTime]_vars

\* C16: register_alarm run alone leaves exactly one row, the new alarm,
\* whatever the table held before; break_execution run alone leaves no row.
C16_ReplaceAndClear ==
    [][\A i \in TaskIds :
          (tasks[i].kind # "timer" /\ tasks[i].solo /\ Commit(i))
          => IF tasks[i].kind = "break"
             THEN store' = {}
             ELSE /\ Cardinality(store') = 1
                  /\ \A r \in store' : /\ r.time = tasks[i].alarm_time
                                        /\ r.name = tasks[i].alarm_name]_vars

\* The pending trigger is what it was: the same task referenced, the same
\* timers live, each as it was.
TriggerUnchanged ==
    /\ active_alarm_task' = active_alarm_task
    /\ LiveTimers' = LiveTimers
    /\ \A i \in LiveTimers : tasks'[i] = tasks[i]

\* C13: no step of a GetActive or Help request changes the stored rows or
\* the pending trigger.
C13_QueriesDoNotMutate ==
    [][(RequestHelp \/ RequestGetActive \/ \E g \in TaskIds : GetActiveQuery(g))
       => (store' = store /\ TriggerUnchanged)]_vars

\* C13 witness: GetActive has answered the stored time while that alarm is
\* stored, past, and its trigger still pending.
C13_Witness ==
    /\ last_event.event = "response" /\ last_event.action = "get_active"
    /\ \E r \in store : r.time = last_event.alarm_time /\ r.time <= now
    /\ \E i \in LiveTimers : tasks[i].target = last_event.alarm_time

\* C14: restart recovery arms exactly one trigger, for the time of a stored
\* alarm that is strictly after now, and arms nothing when there is no such
\* alarm; it never changes the store.
C14_RestartRecovery ==
    [][Restart =>
          /\ store' = store
          /\ LET future == {r \in store : r.time > now}
             IN  IF future = {}
                 THEN LiveTimers' = {} /\ active_alarm_task' = NoTask
                 ELSE /\ LiveTimers' = {active_alarm_task'}
                      /\ tasks'[active_alarm_task'].pc = "sleep"
                      /\ \E r \in future :
                            tasks'[active_alarm_task'].target = r.time
                      /\ Cardinality(store) = 1 =>
                            \A r \in store :
                               tasks'[active_alarm_task'].target = r.time]_vars

\* C14 witness: after a restart the only live trigger is the one recovery
\* armed for the stored future alarm.
C14_Witness ==
    /\ restarts = 1
    /\ \E r \in store :
          /\ r.time > now
          /\ store = {r}
          /\ \E i \in LiveTimers :
                /\ LiveTimers = {i}
                /\ tasks[i].armed_by = "recovery"
                /\ tasks[i].target = r.time

\* C15: when a store access of a Set, Skip, Continue or Break raises, the
\* operation ends there with the error raised, and neither that step nor the
\* operation's earlier select changed the committed rows or the pending
\* trigger.
C15_StoreFailureAborts ==
    [][\A i \in TaskIds :
          tasks[i].kind \in {"set", "skip", "continue", "break"}
          => /\ StoreFail(i)
                => /\ store' = store
                   /\ TriggerUnchanged
                   /\ i \notin DOMAIN tasks'
                   /\ last_event' = Raised(tasks[i].kind)
             /\ Read(i) => (store' = store /\ TriggerUnchanged)]_vars

\* C15 witness: a Set has failed while an earlier alarm stays stored and
\* armed.
C15_Witness ==
    /\ last_event = Raised("set")
    /\ requests = 2
    /\ \E r \in store : \E i \in LiveTimers :
          /\ store = {r} /\ LiveTimers = {i}
          /\ tasks[i].target = r.time /\ tasks[i].pc = "sleep"
    /\ \A i \in TaskIds : i \in LiveTimers

\* C17: an unrecognized request sends no response and leaves the stored
\* alarm, the pending trigger and every task as they were.
C17_UnrecognizedDropped ==
    [][Unrecognized =>
          /\ last_event' = Dropped
          /\ store' = store
          /\ tasks' = tasks
          /\ TriggerUnchanged]_vars

\* C17 witness: a text was dropped while an alarm is stored and armed.
C17_Witness ==
    /\ last_event = Dropped
    /\ store # {}
    /\ \E i \in LiveTimers : tasks[i].pc = "sleep" /\ active_alarm_task = i

\* No scheduling operation other than b is in the event loop.
OnlyOperation(b) ==
    \A i \in TaskIds : i # b => tasks[i].kind \in {"timer", "get_active"}

\* C19: a Break run alone ends without error in Idle with an empty store,
\* also when no trigger is armed; run after a completed Break it changes
\* neither the store nor the trigger.
C19_BreakIdempotent ==
    [][\A b \in TaskIds :
          (tasks[b].solo /\ OnlyOperation(b) /\ BreakCancel(b))
          => /\ store' = {}
             /\ LiveTimers' = {}
             /\ active_alarm_task' = NoTask
             /\ last_event' = last_event
             /\ break_done => (store' = store /\ TriggerUnchanged)]_vars

\* C19 witness: after a completed Break, a second Break run alone has
\* committed over the empty store and is about to cancel with no trigger
\* armed.
C19_Witness ==
    /\ break_done
    /\ requests = 2
    /\ store = {}
    /\ active_alarm_task = NoTask
    /\ \E b \in TaskIds :
          /\ tasks[b].kind = "break" /\ tasks[b].pc = "cancel" /\ tasks[b].solo
          /\ TaskIds = {b}

\* C20: the alarm_time of every notification sent is the target instant of
\* the trigger that fired.
C20_PostedTimeIsTarget ==
    \A i \in TaskIds :
        (tasks[i].kind = "timer" /\ tasks[i].calls > 0)
        => tasks[i].posted = tasks[i].target

\* Keyword kw is one of the words of text t: a run of t between blanks that,
\* without its punctuation and in lower case, reads kw.
Normal(word) ==
    LET kept == SelectSeq(word, LAMBDA c : c \notin Punctuation)
    IN  [i \in 1..Len(kept) |->
            IF kept[i] \in DOMAIN UpperToLower THEN UpperToLower[kept[i]] ELSE kept[i]]

Occurs(kw, t) ==
    \E a \in 1..Len(t) : \E b \in a..Len(t) :
        /\ \A i \in a..b : t[i] # " "
        /\ (a = 1 \/ t[a - 1] = " ")
        /\ (b = Len(t) \/ t[b + 1] = " ")
        /\ Normal(SubSeq(t, a, b)) = kw

FullySatisfied(i, t) ==
    \A k \in 1..Len(ActionValue[ActionOrder[i]]) : Occurs(ActionValue[ActionOrder[i]][k], t)

\* C18: find_matching_action returns the first action, in the order Help,
\* Set, Skip, Break, Continue, GetActive, whose keywords all occur among the
\* words of the text after lower-casing and stripping punctuation, and none
\* when no action has all its keywords there.
C18_FirstFullMatch ==
    matched \notin {"pending", "unset"}
    => /\ ActionOrder = <<"help", "set", "skip", "break", "continue", "get_active">>
       /\ IF \E i \in 1..Len(ActionOrder) : FullySatisfied(i, text)
          THEN \E i \in 1..Len(ActionOrder) :
                  /\ matched = ActionOrder[i]
                  /\ FullySatisfied(i, text)
                  /\ \A j \in 1..(i - 1) : ~FullySatisfied(j, text)
          ELSE matched = "none"

\* C18 witness: a text with "Set" before "help" was matched to Help, the
\* earlier action of the enumeration.
C18_Witness ==
    /\ matched = "help"
    /\ text = <<"S", "e", "t", " ", "h", "e", "l", "p">>

\* C21: a Fire that re-arms is itself the task _active_alarm_task refers to;
\* the cancel it gives itself does not stop it: with no other operation in
\* the way its new row is committed and the new trigger is installed, live
\* and referenced.
C21_SelfCancelHarmless ==
    [][\A i \in TaskIds :
          (tasks[i].kind = "timer" /\ tasks[i].calls > 0
              /\ OnlyOperation(i) /\ Arm(i))
          => /\ active_alarm_task = i
             /\ active_alarm_task' # i
             /\ LiveTimers' = {active_alarm_task'}
             /\ tasks'[active_alarm_task'].pc = "sleep"
             /\ tasks'[active_alarm_task'].calls = 0
             /\ tasks'[active_alarm_task'].target = tasks[i].alarm_time
             /\ \E r \in store' : r.time = tasks[i].alarm_time
             /\ i \notin LiveTimers']_vars

\* C21 witness: the alarm of a Set has fired and the Fire, alone, has stored
\* and armed the next occurrence.
C21_Witness ==
    /\ requests = 1
    /\ restarts = 0
    /\ DOMAIN notifier_calls # {}
    /\ \E i \in LiveTimers :
          /\ TaskIds = {i}
          /\ active_alarm_task = i
          /\ tasks[i].armed_by = "timer"
          /\ tasks[i].pc = "sleep"
          /\ store = {[id |-> 2, name |-> DefaultAlarmName, time |-> tasks[i].target]}

\* C22: the alarm time a Skip or Continue request announced in its answer is
\* the alarm time its spawned operation computed, stores and arms.
C22_AnnouncedTimeIsArmedTime ==
    \A i \in TaskIds :
        (tasks[i].kind \in {"skip", "continue"} /\ tasks[i].pc # "calc")
        => tasks[i].alarm_time = tasks[i].announced

\* Instant t is the second occurrence of the rule after instant t0.
SecondOccurrenceAfter(t0, t) ==
    t > t0 /\ IsOccurrence(t) /\ Cardinality(OccurrencesBetween(t0, t)) = 1

\* C23: a Skip run alone arms and stores the second occurrence after now,
\* whatever is armed: over the trigger of an earlier Skip that still is the
\* second occurrence after now it arms the same time again, and over the
\* trigger of a user Set it arms the second occurrence, not the user's time.
C23_SkipDoesNotAccumulate ==
    [][\A i \in TaskIds :
          (tasks[i].kind = "skip" /\ tasks[i].solo /\ OnlyOperation(i) /\ Arm(i))
          => LET at == tasks'[active_alarm_task'].target
             IN  /\ SecondOccurrenceAfter(tasks[i].calc_now, at)
                 /\ LiveTimers' = {active_alarm_task'}
                 /\ \E r \in store' : r.time = at /\ r.name = DefaultAlarmName
                 /\ Cardinality(store') = 1 => \A r \in store' : r.time = at
                 /\ (active_alarm_task \in TaskIds
                        /\ tasks[active_alarm_task].pc = "sleep")
                    => LET old == tasks[active_alarm_task]
                       IN  /\ (old.armed_by = "skip"
                                 /\ SecondOccurrenceAfter(tasks[i].calc_now, old.target))
                              => at = old.target
                           /\ (old.armed_by = "set"
                                 /\ ~SecondOccurrenceAfter(tasks[i].calc_now, old.target))
                              => at # old.target]_vars

\* C23 witness: over the trigger of an earlier Skip, a second Skip run alone
\* has stored the same time again and is about to arm it.
C23_Witness ==
    /\ requests = 2
    /\ \E i \in TaskIds :
          /\ tasks[i].kind = "skip" /\ tasks[i].pc = "arm" /\ tasks[i].solo
          /\ OnlyOperation(i)
          /\ active_alarm_task \in TaskIds
          /\ tasks[active_alarm_task].armed_by = "skip"
          /\ tasks[active_alarm_task].pc = "sleep"
          /\ tasks[active_alarm_task].target = tasks[i].alarm_time
          /\ \A r \in store : r.time = tasks[i].alarm_time
          /\ Cardinality(store) = 1

\* C24: the answer to a Set leaves only with the step in which its trigger
\* is armed, a failed registration leaves no answer, and at the moment the
\* answer leaves the announced alarm is stored and armed.
C24_SetReplyAfterStoredAndArmed ==
    [][\A i \in TaskIds :
          tasks[i].kind = "set"
          => /\ (Read(i) \/ Commit(i)) => last_event' = last_event
             /\ StoreFail(i) => last_event'.event # "response"
             /\ Arm(i)
                => /\ last_event' = Response("set", tasks[i].alarm_time)
                   /\ tasks'[active_alarm_task'].target = tasks[i].alarm_time
                   /\ tasks'[active_alarm_task'].pc = "sleep"
                   /\ \E r \in store' : r.time = tasks[i].alarm_time]_vars

====
